---- MODULE Spec2Model ----
(***************************************************************************)
(* Model of the FastAPI control plane in src/backend/main.py (startup,     *)
(* function registry, run / metrics / compare endpoints) and of the        *)
(* sandboxed execution engine it calls (run_function_docker), whose pool   *)
(* manager and orchestrator are modelled from spec.md sections 3-5.        *)
(*                                                                         *)
(* Spec       : the API layer. Every endpoint is an `async def` that never *)
(*              awaits, so a handler occupies the single event loop from   *)
(*              dispatch until its response is sent.                       *)
(* EngineSpec : the engine with concurrent callers of execute.             *)
(***************************************************************************)
EXTENDS Integers, Sequences, FiniteSets, TLC

\* ---------------------------------------------------------------- bounds
MaxFuncs == 2      \* registry length explored
MaxRows == 2       \* rows of the metrics table explored
MaxCallers == 2    \* concurrent callers of the engine's execute

\* ------------------------------------------------------------- constants
\* The (language, backend) pairs in the order startup_event prewarms them.
Pairs ==
    << <<"python", "runc">>, <<"python", "runsc">>,
       <<"node", "runc">>, <<"node", "runsc">> >>

PairSet == { Pairs[i] : i \in 1..Len(Pairs) }

\* The two backends compare_performance runs, in its order.
CompareBackends == <<"runc", "runsc">>

\* Exception classes the except clauses of main.py tell apart.
StartupExceptions == {"FileNotFoundError", "RuntimeError", "Exception"}

\* Request bodies accepted by the pydantic model Function. Optional values
\* are sequences of length 0 (None / key absent) or 1.
FunctionInputs ==
    { [name |-> "f", route |-> "/f", language |-> "python", timeout |-> 1,
       runtime |-> "runc", settings |-> << [code |-> <<"a">>] >>],
      [name |-> "f", route |-> "/f", language |-> "node", timeout |-> 2,
       runtime |-> "runsc", settings |-> << [code |-> <<"b">>] >>],
      [name |-> "g", route |-> "/g", language |-> "python", timeout |-> 1,
       runtime |-> "runsc", settings |-> << [code |-> <<"">>] >>],
      [name |-> "g", route |-> "/g", language |-> "node", timeout |-> 2,
       runtime |-> "runc", settings |-> << [code |-> <<>>] >>],
      [name |-> "g", route |-> "/g", language |-> "python", timeout |-> 2,
       runtime |-> "runc", settings |-> <<>>] }

VARIABLES
    startup,      \* position of startup_event, then "serving" or "failed"
    buildFailed,  \* pairs whose image build failed in ensure_docker_images
    prewarmLog,   \* prewarm_containers calls made so far: [pair, ok]
    bootError,    \* the exception startup_event raised: [type, msg]
    functions,    \* the registry list
    executed,     \* ghost, one per stored function: rowid of the row its
                  \* latest execution wrote, 0 when it has written none
    metrics,      \* rows of the metrics table, in rowid order
    stage,        \* what the event loop is running
    req,          \* the request being handled: [op, func_id]
    local,        \* locals of the handler being run
    resp,         \* the response of the handler being run
    slot,         \* engine: every ContainerSlot, by identity
    idle,         \* engine: the idle queue of every PoolKey
    exec          \* engine: every caller's execute, its position and locals

startupVars == << startup, buildFailed, prewarmLog, bootError >>

storeVars == << functions, executed, metrics >>

loopVars == << stage, req, local, resp >>

engineVars == << slot, idle, exec >>

vars == << startupVars, storeVars, loopVars, engineVars >>

\* ------------------------------------------------------------ startup
NoError == [type |-> "", msg |-> ""]

\* except clauses of the second try block of startup_event
StartupExcept(exc) ==
    CASE exc = "FileNotFoundError" -> [type |-> "RuntimeError", msg |-> "str(e)"]
      [] exc = "RuntimeError" ->
            [type |-> "RuntimeError", msg |-> "Docker image build failed"]
      [] OTHER -> [type |-> "RuntimeError", msg |-> "Startup failed"]

\* subprocess.run(["docker", "info"], check=True): only CalledProcessError is
\* caught; a missing docker binary raises FileNotFoundError out of the handler.
DockerCheck ==
    /\ startup = "docker_check"
    /\ \E out \in {"ok", "CalledProcessError", "FileNotFoundError"} :
         CASE out = "ok" -> startup' = "initialize_database" /\ bootError' = bootError
           [] out = "CalledProcessError" ->
                /\ startup' = "failed"
                /\ bootError' = [type |-> "RuntimeError",
                                 msg |-> "Docker is not running or accessible."]
           [] OTHER ->
                /\ startup' = "failed"
                /\ bootError' = [type |-> "FileNotFoundError", msg |-> "docker"]
    /\ UNCHANGED << buildFailed, prewarmLog, storeVars, loopVars, engineVars >>

InitializeDatabase ==
    /\ startup = "initialize_database"
    /\ \E out \in {"ok"} \cup StartupExceptions :
         IF out = "ok"
         THEN startup' = "ensure_docker_images" /\ bootError' = bootError
         ELSE startup' = "failed" /\ bootError' = StartupExcept(out)
    /\ UNCHANGED << buildFailed, prewarmLog, storeVars, loopVars, engineVars >>

\* ensure_docker_images(): one call for all pairs; it raises when the build of
\* some pair fails (RuntimeError) or a build file is missing.
EnsureImagesOutcome(failed, exc) == IF failed = {} THEN "ok" ELSE exc

EnsureDockerImages ==
    /\ startup = "ensure_docker_images"
    /\ \E failed \in SUBSET PairSet, exc \in {"RuntimeError", "FileNotFoundError"} :
         /\ buildFailed' = failed
         /\ IF EnsureImagesOutcome(failed, exc) = "ok"
            THEN startup' = "prewarm" /\ bootError' = bootError
            ELSE startup' = "failed" /\ bootError' = StartupExcept(exc)
    /\ UNCHANGED << prewarmLog, storeVars, loopVars, engineVars >>

\* The four prewarm_containers calls, in order; a raise leaves the try block.
PrewarmContainers ==
    /\ startup = "prewarm"
    /\ Len(prewarmLog) < Len(Pairs)
    /\ LET pair == Pairs[Len(prewarmLog) + 1] IN
       \E out \in {"ok"} \cup StartupExceptions :
         /\ prewarmLog' = Append(prewarmLog, [pair |-> pair, ok |-> out = "ok"])
         /\ IF out = "ok"
            THEN /\ startup' = IF Len(prewarmLog) + 1 = Len(Pairs)
                               THEN "serving" ELSE "prewarm"
                 /\ bootError' = bootError
            ELSE startup' = "failed" /\ bootError' = StartupExcept(out)
    /\ UNCHANGED << buildFailed, storeVars, loopVars, engineVars >>

StartupDone == startup \in {"serving", "failed"}

Prewarmed == { prewarmLog[i].pair : i \in { j \in 1..Len(prewarmLog) : prewarmLog[j].ok } }

PrewarmFailed ==
    { prewarmLog[i].pair : i \in { j \in 1..Len(prewarmLog) : ~prewarmLog[j].ok } }

\* ------------------------------------------------------------ requests
NoReq == [op |-> "", func_id |-> 0]

NoLocal == [function |-> <<>>, code |-> <<>>, calls |-> <<>>, results |-> <<>>]

NoResp ==
    [status |-> 0, detail |-> "", unhandled |-> FALSE, id |-> 0,
     functions |-> <<>>, row |-> 0, results |-> <<>>]

HTTPException(status, detail) == [NoResp EXCEPT !.status = status, !.detail = detail]

\* An exception that leaves the handler: Starlette answers 500.
Unhandled(exc) ==
    [NoResp EXCEPT !.status = 500, !.detail = exc, !.unhandled = TRUE]

\* function.dict() with the id the handler adds
Entry(f, func_id) ==
    [name |-> f.name, route |-> f.route, language |-> f.language,
     timeout |-> f.timeout, runtime |-> f.runtime, settings |-> f.settings,
     id |-> func_id]

\* if func_id > len(functions) or func_id <= 0
\* A range check that rejects the last registered id.
NotFoundOffByOne(func_id) == func_id >= Len(functions) \/ func_id <= 0

NotFound(func_id) == func_id > Len(functions) \/ func_id <= 0

FuncIds == 0..(MaxFuncs + 1)

\* functions.pop(func_id - 1)
\* A pop without its index: the last entry goes.
PopLast(s, i) == SubSeq(s, 1, Len(s) - 1)

Pop(s, i) == SubSeq(s, 1, i - 1) \o SubSeq(s, i + 1, Len(s))

\* The event loop takes a request only between handlers: every endpoint is an
\* `async def` that never awaits, so nothing else runs until it has answered.
CanDispatch == startup = "serving" /\ stage = "free"

\* The handler has returned or raised: its response goes to the caller.
Answer(op, func_id, r) ==
    /\ stage' = "respond"
    /\ req' = [op |-> op, func_id |-> func_id]
    /\ local' = NoLocal
    /\ resp' = r

CreateFunction ==
    /\ CanDispatch
    /\ Len(functions) < MaxFuncs
    /\ \E f \in FunctionInputs :
         LET func_id == Len(functions) + 1 IN
         /\ functions' = Append(functions, Entry(f, func_id))
         /\ executed' = Append(executed, 0)
         /\ Answer("create", func_id, [NoResp EXCEPT !.status = 201, !.id = func_id])
    /\ UNCHANGED << startupVars, metrics, engineVars >>

GetAllFunctions ==
    /\ CanDispatch
    /\ Answer("get_all", 0, [NoResp EXCEPT !.status = 200, !.functions = functions])
    /\ UNCHANGED << startupVars, storeVars, engineVars >>

GetFunctionResponse(func_id) ==
    IF NotFound(func_id)
    THEN HTTPException(404, "Function not found")
    ELSE [NoResp EXCEPT !.status = 200, !.functions = << functions[func_id] >>]

GetFunction ==
    /\ CanDispatch
    /\ \E func_id \in FuncIds : Answer("get", func_id, GetFunctionResponse(func_id))
    /\ UNCHANGED << startupVars, storeVars, engineVars >>

UpdateFunction ==
    /\ CanDispatch
    /\ \E func_id \in FuncIds, f \in FunctionInputs :
         IF NotFound(func_id)
         THEN /\ Answer("update", func_id, HTTPException(404, "Function not found"))
              /\ UNCHANGED << functions, executed >>
         ELSE LET updated == Entry(f, func_id) IN
              /\ functions' = [functions EXCEPT ![func_id] = updated]
              /\ executed' = executed
              /\ Answer("update", func_id,
                        [NoResp EXCEPT !.status = 200, !.functions = << updated >>])
    /\ UNCHANGED << startupVars, metrics, engineVars >>

DeleteFunction ==
    /\ CanDispatch
    /\ \E func_id \in FuncIds :
         IF NotFound(func_id)
         THEN /\ Answer("delete", func_id, HTTPException(404, "Function not found"))
              /\ UNCHANGED << functions, executed >>
         ELSE /\ functions' = Pop(functions, func_id)
              /\ executed' = Pop(executed, func_id)
              /\ Answer("delete", func_id, [NoResp EXCEPT !.status = 200])
    /\ UNCHANGED << startupVars, metrics, engineVars >>

\* ------------------------------------------------- run / metrics / compare
\* function.get("settings", {}).get("code"): settings holds None when the
\* body gave null, and None has no get.
SettingsCode(function) ==
    IF function.settings = <<>>
    THEN [raises |-> TRUE, code |-> <<>>]
    ELSE [raises |-> FALSE, code |-> function.settings[1].code]

\* `not code`: the key is absent (None) or the string is empty
NoCode(code) == code = <<>> \/ code = <<"">>

\* A call that passes a fixed timeout in place of the function's own.
RunCallFixedTimeout(code, function, runtime) ==
    [code |-> code, language |-> function.language, timeout |-> 1,
     runtime |-> runtime, name |-> function.name]

\* The arguments of one run_function call, read from the handler's locals.
RunCall(code, function, runtime) ==
    [code |-> code, language |-> function.language, timeout |-> function.timeout,
     runtime |-> runtime, name |-> function.name]

\* run_function returns (output, metrics), with the error flag set or not, or
\* raises.
RunOutcomes == {"ok", "error", "ValueError", "Exception"}

Returns(out) == out \in {"ok", "error"}

\* run_function's record in the metrics table: one row per execution that
\* returns; an execution that raises may or may not have written its row.
\* A row is its rowid (its position) and the column the query of
\* get_function_metrics selects on; the other columns are returned as stored.
RunFunctionRows(call, out, wrote) ==
    IF wrote
    THEN Append(metrics, [function_name |-> call.name])
    ELSE metrics

\* Ghost: the function stored under func_id has written the last row of rows.
Executed(func_id, wrote, rows) ==
    IF wrote THEN [executed EXCEPT ![func_id] = Len(rows)] ELSE executed

Wrote(out) == IF Returns(out) THEN {TRUE} ELSE BOOLEAN

\* What a call's result shows of it: its backend, outcome and metrics row.
Result(call, out, rows) ==
    [runtime |-> call.runtime, outcome |-> out, row |-> Len(rows)]

\* The checks every executing handler makes before it calls run_function.
\* NoResp means: go on and execute.
Precheck(func_id) ==
    IF NotFound(func_id) THEN HTTPException(404, "Function not found")
    ELSE IF SettingsCode(functions[func_id]).raises THEN Unhandled("AttributeError")
    ELSE IF NoCode(SettingsCode(functions[func_id]).code)
         THEN HTTPException(400, "No code provided in function settings")
    ELSE NoResp

\* The handler is inside run_function: it holds the event loop.
Execute(op, func_id, runtime, next) ==
    LET function == functions[func_id]
        code == SettingsCode(function).code[1] IN
    /\ stage' = next
    /\ req' = [op |-> op, func_id |-> func_id]
    /\ local' = [function |-> << function >>, code |-> << code >>,
                 calls |-> << RunCall(code, function, runtime) >>,
                 results |-> <<>>]
    /\ resp' = NoResp

RunBegin(func_id) ==
    /\ CanDispatch
    /\ IF Precheck(func_id) # NoResp
       THEN Answer("run", func_id, Precheck(func_id))
       ELSE /\ Len(metrics) + 1 <= MaxRows
            /\ Execute("run", func_id, functions[func_id].runtime, "run_function")
    /\ UNCHANGED << startupVars, storeVars, engineVars >>

RunFunctionEndpoint == \E func_id \in FuncIds : RunBegin(func_id)

\* A run_function_endpoint whose last except clause is missing.
RunExceptUncaught(exc) ==
    IF exc = "ValueError"
    THEN HTTPException(400, "str(e)")
    ELSE Unhandled(exc)

\* except clauses of run_function_endpoint
RunExcept(exc) ==
    IF exc = "ValueError"
    THEN HTTPException(400, "str(e)")
    ELSE HTTPException(500, "Execution failed")

\* run_function returns or raises inside run_function_endpoint.
RunFunctionReturns ==
    /\ stage = "run_function"
    /\ \E out \in RunOutcomes : \E wrote \in Wrote(out) :
         LET call == local.calls[1]
             rows == RunFunctionRows(call, out, wrote) IN
         /\ metrics' = rows
         /\ executed' = Executed(req.func_id, wrote, rows)
         /\ local' = [local EXCEPT !.results =
                         IF Returns(out) THEN << Result(call, out, rows) >> ELSE <<>>]
         /\ resp' = IF Returns(out)
                    THEN [NoResp EXCEPT !.status = 200,
                                        !.results = << Result(call, out, rows) >>]
                    ELSE RunExcept(out)
    /\ stage' = "respond"
    /\ UNCHANGED << startupVars, functions, req, engineVars >>

\* SELECT ... WHERE function_name = ? ORDER BY rowid DESC LIMIT 1
LatestRow(function_name) ==
    LET rows == { i \in 1..Len(metrics) : metrics[i].function_name = function_name } IN
    IF rows = {} THEN 0 ELSE CHOOSE i \in rows : \A j \in rows : j <= i

MetricsResponse(func_id, dbok) ==
    IF NotFound(func_id) THEN HTTPException(404, "Function not found")
    ELSE IF ~dbok THEN HTTPException(500, "Failed to retrieve metrics")
    ELSE IF LatestRow(functions[func_id].name) = 0
         THEN HTTPException(404, "No metrics found for function")
    ELSE [NoResp EXCEPT !.status = 200, !.row = LatestRow(functions[func_id].name)]

GetFunctionMetrics ==
    /\ CanDispatch
    /\ \E func_id \in FuncIds, dbok \in BOOLEAN :
         Answer("metrics", func_id, MetricsResponse(func_id, dbok))
    /\ UNCHANGED << startupVars, storeVars, engineVars >>

CompareBegin(func_id) ==
    /\ CanDispatch
    /\ IF Precheck(func_id) # NoResp
       THEN Answer("compare", func_id, Precheck(func_id))
       ELSE /\ Len(metrics) + Len(CompareBackends) <= MaxRows
            /\ Execute("compare", func_id, CompareBackends[1], "compare")
    /\ UNCHANGED << startupVars, storeVars, engineVars >>

ComparePerformance == \E func_id \in FuncIds : CompareBegin(func_id)

\* What compare_performance does when a run_function call raises: the call
\* is in no try block, so the exception leaves the handler.
CompareExcept(exc) == Unhandled(exc)

\* What compare_performance does after call number n has returned: it makes
\* the next call, or builds the comparison.
CompareNextCall(n) == IF n < Len(CompareBackends) THEN n + 1 ELSE 0

\* One run_function call of compare_performance returns or raises.
CompareRunFunction ==
    /\ stage = "compare"
    /\ \E out \in RunOutcomes : \E wrote \in Wrote(out) :
         LET n == Len(local.calls)
             call == local.calls[n]
             function == local.function[1]
             rows == RunFunctionRows(call, out, wrote)
             results == Append(local.results, Result(call, out, rows))
             nxt == CompareNextCall(n) IN
         /\ metrics' = rows
         /\ executed' = Executed(req.func_id, wrote, rows)
         /\ IF ~Returns(out)
            THEN /\ stage' = "respond"
                 /\ resp' = CompareExcept(out)
                 /\ local' = local
            ELSE IF nxt # 0
            THEN /\ stage' = "compare"
                 /\ resp' = resp
                 /\ local' = [local EXCEPT
                        !.results = results,
                        !.calls = Append(local.calls,
                            RunCall(local.code[1], function, CompareBackends[nxt]))]
            ELSE /\ stage' = "respond"
                 /\ resp' = [NoResp EXCEPT !.status = 200, !.results = results]
                 /\ local' = [local EXCEPT !.results = results]
    /\ UNCHANGED << startupVars, functions, req, engineVars >>

\* The response is sent and the event loop takes the next request.
Respond ==
    /\ stage = "respond"
    /\ stage' = "free"
    /\ req' = NoReq
    /\ local' = NoLocal
    /\ resp' = NoResp
    /\ UNCHANGED << startupVars, storeVars, engineVars >>


\* ------------------------------------------------ engine (spec.md 3-5)
\* PoolConfig, the same for every key: minimum idle count and maximum total
\* containers. The reuse budget (executions or idle age) is not counted: at
\* checkin a slot is under its budget or not.
MinIdle == 1
MaxContainers == 2

PoolKeys == { <<"python", "runc">>, <<"python", "runsc">> }

Callers == 1..MaxCallers

\* Identities for the containers of a key: one more than may exist at once,
\* so that it is checkout and provisioning that keep a key under its maximum;
\* the identity of a removed container is free again.
SlotIds == PoolKeys \X (1..(MaxContainers + 1))

KeyOf(s) == s[1]

\* ContainerSlot lifecycle states; "none" is no container.
SlotStates == {"none", "provisioning", "idle", "busy", "destroying"}

NoExec ==
    [pc |-> "idle", key |-> <<"", "">>, slot |-> <<>>, expired |-> FALSE,
     result |-> ""]

\* Containers of a key that exist: created and not yet removed.
Existing(key) == { s \in SlotIds : KeyOf(s) = key /\ slot[s] # "none" }

\* The identity the next container of a key gets.
NewSlot(key) ==
    CHOOSE s \in SlotIds :
        /\ KeyOf(s) = key /\ slot[s] = "none"
        /\ \A t \in SlotIds : (KeyOf(t) = key /\ slot[t] = "none") => s[2] <= t[2]

\* A limit check that lets a key reach one container more than its maximum.
UnderLimitOffByOne(key) == Cardinality(Existing(key)) <= MaxContainers

\* The per-key concurrency limit has not been reached.
UnderLimit(key) == Cardinality(Existing(key)) < MaxContainers

\* A pool that is prewarmed once and never replenished.
NeedsProvisionPrewarmOnly(key) == Existing(key) = {}

\* The idle count of a key is below its configured minimum.
NeedsProvision(key) == Len(idle[key]) < MinIdle

\* prewarm(key, n) and replenishment: start a container for a key whose idle
\* queue is below its minimum.
Provision(key) ==
    /\ NeedsProvision(key)
    /\ UnderLimit(key)
    /\ slot' = [slot EXCEPT ![NewSlot(key)] = "provisioning"]
    /\ UNCHANGED << idle, exec, startupVars, storeVars, loopVars >>

\* Provisioning -> Idle
ProvisionDone(s) ==
    /\ slot[s] = "provisioning"
    /\ slot' = [slot EXCEPT ![s] = "idle"]
    /\ idle' = [idle EXCEPT ![KeyOf(s)] = Append(@, s)]
    /\ UNCHANGED << exec, startupVars, storeVars, loopVars >>

\* A caller invokes execute(request).
ExecuteRequest(c) ==
    /\ exec[c].pc = "idle"
    /\ \E key \in PoolKeys :
         exec' = [exec EXCEPT ![c] = [NoExec EXCEPT !.pc = "checkout", !.key = key]]
    /\ UNCHANGED << slot, idle, startupVars, storeVars, loopVars >>

\* A checkout that leaves the slot it hands out in the idle queue.
PopIdleKeep(queue) == queue

\* checkout(key) pops one idle slot.
PopIdle(queue) == Tail(queue)

\* checkout(key), step 1 of execute: an idle slot, else a new container while
\* the key is under its maximum, else a resource-exhausted error.
Checkout(c) ==
    LET key == exec[c].key IN
    /\ exec[c].pc = "checkout"
    /\ IF idle[key] # <<>>
       THEN LET s == Head(idle[key]) IN
            /\ idle' = [idle EXCEPT ![key] = PopIdle(@)]
            /\ slot' = [slot EXCEPT ![s] = "busy"]
            /\ exec' = [exec EXCEPT ![c].pc = "running", ![c].slot = s]
       ELSE IF UnderLimit(key)
       THEN /\ slot' = [slot EXCEPT ![NewSlot(key)] = "busy"]
            /\ exec' = [exec EXCEPT ![c].pc = "running", ![c].slot = NewSlot(key)]
            /\ idle' = idle
       ELSE /\ exec' = [exec EXCEPT ![c] = [NoExec EXCEPT !.pc = "done",
                                                       !.result = "PoolExhausted"]]
            /\ UNCHANGED << slot, idle >>
    /\ UNCHANGED << startupVars, storeVars, loopVars >>

\* A container that has timed out is handed back as healthy.
HealthyAlways(outcome) == TRUE

\* Which outcomes leave the container eligible for checkin (steps 4-6).
Healthy(outcome) == outcome \in {"Success", "RuntimeExecutionError"}

\* An execute that hands back only the slots it found healthy.
CheckinHealthyOnly(s, healthy, underBudget) ==
    IF healthy
    THEN /\ slot' = [slot EXCEPT ![s] = IF underBudget THEN "idle" ELSE "destroying"]
         /\ idle' = IF underBudget
                    THEN [idle EXCEPT ![KeyOf(s)] = Append(@, s)]
                    ELSE idle
    ELSE UNCHANGED << slot, idle >>

\* checkin(slot, healthy): back to the idle queue when healthy and under the
\* reuse budget, else destruction.
Checkin(s, healthy, underBudget) ==
    IF healthy /\ underBudget
    THEN /\ slot' = [slot EXCEPT ![s] = "idle"]
         /\ idle' = [idle EXCEPT ![KeyOf(s)] = Append(@, s)]
    ELSE /\ slot' = [slot EXCEPT ![s] = "destroying"]
         /\ idle' = idle

\* The result of execute and the checkin it makes (step 7).
Finish(c, outcome, expired) ==
    /\ exec' = [exec EXCEPT ![c] = [NoExec EXCEPT !.pc = "done", !.result = outcome,
                                                !.expired = expired]]
    /\ \E underBudget \in BOOLEAN : Checkin(exec[c].slot, Healthy(outcome), underBudget)

\* The run races the deadline of its timeout (spec.md 5): either may win.
\* Step 4: the process completes first, with a zero or a non-zero exit
\* status. Step 6: an ambiguous failure.
Complete(c) ==
    /\ exec[c].pc = "running"
    /\ \E outcome \in {"Success", "RuntimeExecutionError", "AmbiguousFailure"} :
         Finish(c, outcome, FALSE)
    /\ UNCHANGED << startupVars, storeVars, loopVars >>

\* Step 5: the wait expires first; the process is forcibly terminated.
Expire(c) ==
    /\ exec[c].pc = "running"
    /\ Finish(c, "TimeoutError", TRUE)
    /\ UNCHANGED << startupVars, storeVars, loopVars >>

\* execute returns its result to the caller.
Return(c) ==
    /\ exec[c].pc = "done"
    /\ exec' = [exec EXCEPT ![c] = NoExec]
    /\ UNCHANGED << slot, idle, startupVars, storeVars, loopVars >>

\* A slot scheduled for destruction is destroyed: the container is removed.
Destroy(s) ==
    /\ slot[s] = "destroying"
    /\ slot' = [slot EXCEPT ![s] = "none"]
    /\ UNCHANGED << idle, exec, startupVars, storeVars, loopVars >>

\* ------------------------------------------------------ specifications
EngineIdle ==
    /\ slot = [s \in SlotIds |-> "none"]
    /\ idle = [k \in PoolKeys |-> <<>>]
    /\ exec = [c \in Callers |-> NoExec]

Init ==
    /\ EngineIdle
    /\ startup = "docker_check"
    /\ buildFailed = {}
    /\ prewarmLog = <<>>
    /\ bootError = NoError
    /\ functions = <<>>
    /\ executed = <<>>
    /\ metrics = <<>>
    /\ stage = "free"
    /\ req = NoReq
    /\ local = NoLocal
    /\ resp = NoResp

Next ==
    \/ DockerCheck
    \/ InitializeDatabase
    \/ EnsureDockerImages
    \/ PrewarmContainers
    \/ CreateFunction
    \/ GetAllFunctions
    \/ GetFunction
    \/ UpdateFunction
    \/ DeleteFunction
    \/ RunFunctionEndpoint
    \/ RunFunctionReturns
    \/ GetFunctionMetrics
    \/ ComparePerformance
    \/ CompareRunFunction
    \/ Respond

Spec == Init /\ [][Next]_vars

\* The engine called directly by concurrent callers, the server having started.
EngineInit ==
    /\ EngineIdle
    /\ startup = "serving"
    /\ buildFailed = {}
    /\ prewarmLog = [i \in 1..Len(Pairs) |-> [pair |-> Pairs[i], ok |-> TRUE]]
    /\ bootError = NoError
    /\ functions = <<>>
    /\ executed = <<>>
    /\ metrics = <<>>
    /\ stage = "free"
    /\ req = NoReq
    /\ local = NoLocal
    /\ resp = NoResp

EngineNext ==
    \/ \E key \in PoolKeys : Provision(key)
    \/ \E s \in SlotIds : ProvisionDone(s)
    \/ \E c \in Callers : ExecuteRequest(c)
    \/ \E c \in Callers : Checkout(c)
    \/ \E c \in Callers : Complete(c)
    \/ \E c \in Callers : Expire(c)
    \/ \E c \in Callers : Return(c)
    \/ \E s \in SlotIds : Destroy(s)

EngineSpec == EngineInit /\ [][EngineNext]_vars

\* ---------------------------------------------------------------- claims
\* The handler being answered passed its checks and called run_function.
Executing(op) == stage = "respond" /\ req.op = op /\ local.calls # <<>>

\* C1: a compare request on a registered function that has code is answered
\* with one result per backend, runc and runsc, also when run_function raised
\* on one of them.
C1_CompareReportsBothBackends ==
    Executing("compare") =>
        /\ Len(resp.results) = Len(CompareBackends)
        /\ \A i \in 1..Len(resp.results) : resp.results[i].runtime = CompareBackends[i]

\* C2: while one request is inside run_function, a run request on a
\* registered function that has code can start its own execution.
C2_RunsOverlap ==
    \A func_id \in FuncIds :
        ( /\ stage \in {"run_function", "compare"}
          /\ Precheck(func_id) = NoResp
          /\ Len(metrics) + 1 <= MaxRows )
        => ENABLED RunBegin(func_id)

\* C3: whatever run_function does inside a run request (returns, returns an
\* error, raises), the caller gets an output or an HTTP error response and no
\* unhandled exception, the registry is unchanged, and once the response is
\* sent the server takes the next request.
C3_RunFailureIsStructured ==
    [][ /\ stage = "run_function" =>
              /\ stage' = "respond"
              /\ ~resp'.unhandled
              /\ \/ resp'.status = 200 /\ Len(resp'.results) = 1
                 \/ resp'.status \in {400, 500} /\ resp'.detail # ""
              /\ functions' = functions
              /\ startup' = "serving"
        /\ Executing("run") => functions' = functions /\ CanDispatch'
      ]_vars

\* C3 witness: a run request whose execution raised is being answered 500.
C3_Witness ==
    /\ Executing("run")
    /\ local.results = <<>>
    /\ resp.status = 500
    /\ functions # <<>>

\* C4: when the image build fails for some pairs, startup still ends with the
\* server serving and every other pair has been prewarmed (or its prewarm tried).
C4_BuildFailureLocal ==
    (StartupDone /\ buildFailed # {}) =>
        /\ startup = "serving"
        /\ \A p \in PairSet \ buildFailed : p \in Prewarmed \cup PrewarmFailed

\* C5: a prewarm_containers failure does not abort startup, and prewarming is
\* still attempted for every later pair.
C5_PrewarmBestEffort ==
    PrewarmFailed # {} =>
        /\ startup # "failed"
        /\ StartupDone => Len(prewarmLog) = Len(Pairs)

\* C6: a compare request that reaches execution calls run_function exactly
\* once per backend, runc then runsc, each time with the code, language,
\* timeout and name of the function and never with its configured runtime.
C6_CompareOncePerBackend ==
    Executing("compare") =>
        /\ Len(local.calls) = Len(CompareBackends)
        /\ \A i \in 1..Len(local.calls) :
             local.calls[i] =
                 [code |-> local.code[1], language |-> local.function[1].language,
                  timeout |-> local.function[1].timeout,
                  runtime |-> CompareBackends[i], name |-> local.function[1].name]

\* C7: a get request for an id that create (or update) gave to a function
\* still stored returns a function stored under that id. The id field of an
\* entry is the id its create returned or its update was addressed to.
C7_IdIdentifiesFunction ==
    ( /\ stage = "respond" /\ req.op = "get"
      /\ \E p \in 1..Len(functions) : functions[p].id = req.func_id )
    => /\ resp.status = 200
       /\ resp.functions[1].id = req.func_id

\* C8: a metrics request for a registered function returns the row written by
\* the latest execution of that function, and 404 when that function has
\* written none, whatever other functions have been executed.
C8_MetricsOfThatFunction ==
    ( /\ stage = "respond" /\ req.op = "metrics"
      /\ ~NotFound(req.func_id)
      /\ resp.detail # "Failed to retrieve metrics" )
    => IF executed[req.func_id] = 0
       THEN resp.status = 404
       ELSE resp.status = 200 /\ resp.row = executed[req.func_id]

\* A caller's execute holds a slot from its checkout to its checkin.
Holding(c) == exec[c].pc = "running"

InQueue(s, queue) == \E i \in 1..Len(queue) : queue[i] = s

\* C9: no slot is checked out to two callers or runs two requests at once: the
\* slots held are pairwise distinct, busy and in no idle queue; every idle
\* queue has a length of at least 0 and holds idle slots of its key, each once.
C9_SlotOwnedOnce ==
    /\ \A c, d \in Callers :
         (c # d /\ Holding(c) /\ Holding(d)) => exec[c].slot # exec[d].slot
    /\ \A c \in Callers :
         Holding(c) =>
             /\ slot[exec[c].slot] = "busy"
             /\ \A k \in PoolKeys : ~InQueue(exec[c].slot, idle[k])
    /\ \A k \in PoolKeys :
         /\ Len(idle[k]) >= 0
         /\ \A i, j \in 1..Len(idle[k]) : i # j => idle[k][i] # idle[k][j]
         /\ \A i \in 1..Len(idle[k]) :
              slot[idle[k][i]] = "idle" /\ KeyOf(idle[k][i]) = k

\* C9 witness: two callers hold slots of one key while a checked-in slot of the
\* other key waits in its idle queue.
C9_Witness ==
    \E c, d \in Callers :
        /\ c # d /\ Holding(c) /\ Holding(d)
        /\ exec[c].key = exec[d].key
        /\ \E k \in PoolKeys : k # exec[c].key /\ idle[k] # <<>>

\* C10: when the wait of an execution expires, its result is a timeout error
\* and its slot goes to destruction; a slot in destruction enters no idle
\* queue and no later checkout gets it, until the container is removed.
C10_TimedOutSlotDestroyed ==
    [][ /\ \A c \in Callers :
             (Holding(c) /\ exec'[c].pc = "done" /\ exec'[c].expired) =>
                 /\ exec'[c].result = "TimeoutError"
                 /\ slot'[exec[c].slot] = "destroying"
                 /\ \A k \in PoolKeys : ~InQueue(exec[c].slot, idle'[k])
        /\ \A s \in SlotIds :
             slot[s] = "destroying" =>
                 /\ slot'[s] \in {"destroying", "none"}
                 /\ \A k \in PoolKeys : ~InQueue(s, idle'[k])
                 /\ \A c \in Callers : exec'[c].slot # s
      ]_vars

\* C10 witness: an execution has ended in a timeout, its slot is in
\* destruction, and another caller is checking out from the same pool.
C10_Witness ==
    \E c, d \in Callers :
        /\ exec[c].pc = "done" /\ exec[c].expired /\ exec[c].result = "TimeoutError"
        /\ exec[d].pc = "checkout"
        /\ \E s \in SlotIds : slot[s] = "destroying" /\ KeyOf(s) = exec[d].key

\* How often a slot occurs in a queue.
Occurrences(s, queue) == Cardinality({ i \in 1..Len(queue) : queue[i] = s })

\* C11: the step that ends an execution holding a slot checks that slot in
\* exactly once: the slot leaves busy for destruction or for one place in the
\* idle queue of its key; a busy slot is left busy by every other step and is
\* always held by a running execution; an execute whose checkout failed checks
\* nothing in.
C11_CheckinOncePerCheckout ==
    [][ /\ \A c \in Callers :
             /\ (Holding(c) /\ ~(exec'[c].pc = "running")) =>
                  LET s == exec[c].slot IN
                  /\ exec'[c].pc = "done"
                  /\ slot'[s] \in {"idle", "destroying"}
                  /\ Occurrences(s, idle'[KeyOf(s)])
                        = IF slot'[s] = "idle" THEN 1 ELSE 0
             /\ (exec[c].pc = "checkout" /\ exec'[c].pc = "done") =>
                  slot' = slot /\ idle' = idle
        /\ \A s \in SlotIds :
             /\ (slot[s] = "busy" /\ slot'[s] # "busy") =>
                  \E c \in Callers :
                      Holding(c) /\ exec[c].slot = s /\ exec'[c].pc = "done"
             /\ slot'[s] = "busy" =>
                  \E c \in Callers : exec'[c].pc = "running" /\ exec'[c].slot = s
      ]_vars

\* C11 witness: one execution has ended in success and one in an ambiguous
\* failure, and no slot is busy any more.
C11_Witness ==
    /\ \E c, d \in Callers :
         /\ exec[c].pc = "done" /\ exec[c].result = "Success"
         /\ exec[d].pc = "done" /\ exec[d].result = "AmbiguousFailure"
    /\ \A s \in SlotIds : slot[s] # "busy"
    /\ \E s \in SlotIds : slot[s] = "destroying"

\* C12: no key ever has more containers than its maximum; a checkout never
\* waits, it can always take its step; it fails, with PoolExhausted, exactly
\* when the idle queue of its own key is empty and that key is at its maximum,
\* whatever the state of the other keys, and succeeds otherwise.
C12_CeilingPerKey ==
    [][ /\ \A key \in PoolKeys :
             Cardinality({ s \in SlotIds : KeyOf(s) = key /\ slot'[s] # "none" })
                 <= MaxContainers
        /\ \A c \in Callers :
             exec[c].pc = "checkout" =>
               LET key == exec[c].key
                   atLimit == /\ idle[key] = <<>>
                              /\ Cardinality({ s \in SlotIds :
                                     KeyOf(s) = key /\ slot[s] # "none" })
                                   >= MaxContainers
               IN
               /\ ENABLED Checkout(c)
               /\ exec'[c] # exec[c] =>
                    IF atLimit
                    THEN exec'[c].pc = "done" /\ exec'[c].result = "PoolExhausted"
                    ELSE exec'[c].pc = "running" /\ KeyOf(exec'[c].slot) = key
      ]_vars

\* C12 witness: a checkout has failed on a key that is at its maximum while an
\* execution runs on a container of another key.
C12_Witness ==
    \E c, d \in Callers :
        /\ exec[c].pc = "done" /\ exec[c].result = "PoolExhausted"
        /\ exec[d].pc = "running"
        /\ \E key \in PoolKeys :
             /\ key # KeyOf(exec[d].slot)
             /\ idle[key] = <<>>
             /\ Cardinality(Existing(key)) = MaxContainers

C14_ParametersFixedAtAcceptance ==
    [][ /\ (stage = "free" /\ stage' \in {"run_function", "compare"}) =>
             /\ req'.func_id \in 1..Len(functions)
             /\ local'.function = << functions[req'.func_id] >>
             /\ local'.code = functions[req'.func_id].settings[1].code
        /\ stage \in {"run_function", "compare"} =>
             /\ functions' = functions
             /\ req' = req
             /\ local'.function = local.function
             /\ local'.code = local.code
             /\ \A i \in 1..Len(local.calls) : local'.calls[i] = local.calls[i]
        /\ \A i \in 1..Len(local'.calls) :
             LET call == local'.calls[i]
                 stored == local'.function[1] IN
             /\ << call.code >> = stored.settings[1].code
             /\ call.language = stored.language
             /\ call.timeout = stored.timeout
             /\ call.name = stored.name
             /\ call.runtime = IF req'.op = "run" THEN stored.runtime
                               ELSE CompareBackends[i]
      ]_vars

\* C14 witness: the second run of a compare is in progress for a function
\* whose timeout is not the smallest one.
C14_Witness ==
    /\ stage = "compare"
    /\ Len(local.calls) = 2
    /\ local.function[1].timeout = 2

\* C15: every stored function carries an id field equal to its 1-based
\* position in the registry, so the ids of the stored functions are pairwise
\* distinct.
C15_IdIsPosition ==
    /\ \A p \in 1..Len(functions) : functions[p].id = p
    /\ \A p, q \in 1..Len(functions) : functions[p].id = functions[q].id => p = q

\* C16: the startup steps run in the order docker check, database,
\* ensure_docker_images, then the four prewarms in the order of Pairs; no
\* prewarm is made unless ensure_docker_images returned without error; a
\* failed step is the last one made and leaves a RuntimeError.
C16_StartupInOrder ==
    /\ startup = "failed" => bootError.type = "RuntimeError"
    /\ startup # "failed" => bootError = NoError
    /\ prewarmLog # <<>> =>
         buildFailed = {} /\ startup \in {"prewarm", "serving", "failed"}
    /\ startup = "serving" => Len(prewarmLog) = Len(Pairs)
    /\ \A i \in 1..Len(prewarmLog) :
         /\ prewarmLog[i].pair = Pairs[i]
         /\ ~prewarmLog[i].ok => (i = Len(prewarmLog) /\ startup = "failed")

\* A request for one function has just been dispatched.
Dispatched(ops) == stage = "free" /\ stage' # "free" /\ req'.op \in ops

\* C17: get, update, delete, run, metrics and compare answer 404 'Function
\* not found' exactly when the id is not positive or exceeds the number of
\* registered functions; such a request leaves the registry and the metrics
\* table as they were and starts no execution.
C17_NotFoundExactlyOutOfRange ==
    [][ Dispatched({"get", "update", "delete", "run", "metrics", "compare"}) =>
          LET outOfRange == req'.func_id <= 0 \/ req'.func_id > Len(functions) IN
          /\ (resp'.status = 404 /\ resp'.detail = "Function not found") <=> outOfRange
          /\ outOfRange =>
               /\ functions' = functions
               /\ metrics' = metrics
               /\ executed' = executed
               /\ stage' = "respond"
               /\ local'.calls = <<>>
      ]_vars

\* C17 witness: a run and an id one past the last registered function.
C17_Witness ==
    /\ stage = "respond" /\ req.op = "run"
    /\ functions # <<>>
    /\ req.func_id = Len(functions) + 1
    /\ resp.status = 404

\* The stored settings hold no code: no settings, no code key, or an empty
\* string under it.
HoldsNoCode(function) ==
    \/ function.settings = <<>>
    \/ function.settings[1].code = <<>>
    \/ function.settings[1].code = << "" >>

\* C18: a run or compare of a registered function whose settings hold no code
\* is answered 400 and starts no execution; a run whose execution raises is
\* answered 400 for a ValueError and 500 for any other exception.
C18_NoCodeIsBadRequest ==
    [][ /\ ( /\ Dispatched({"run", "compare"})
             /\ req'.func_id \in 1..Len(functions)
             /\ HoldsNoCode(functions[req'.func_id]) )
           => /\ resp'.status = 400
              /\ ~resp'.unhandled
              /\ stage' = "respond"
              /\ local'.calls = <<>>
              /\ metrics' = metrics
        /\ (stage = "run_function" /\ local'.results = <<>>)
           => resp' \in { HTTPException(400, "str(e)"),
                          HTTPException(500, "Execution failed") }
      ]_vars

====
